---- MODULE Spec2Model ----
(***************************************************************************)
(* Model of action_plugins/docker-compose.py: the ActionModule action      *)
(* plugin that manages a role's docker-compose YAML file, Docker images    *)
(* and Docker containers through the remote modules file, stat, template,  *)
(* docker-compose and docker-images.                                       *)
(*                                                                         *)
(* One ActionModule instance is modelled.  run() is split at the remote    *)
(* module calls: every action below is one method of the class, from the   *)
(* call of the remote module to the point where run() either calls the     *)
(* next method or returns.  The results of the remote modules are inputs.  *)
(***************************************************************************)
EXTENDS Integers, Sequences, FiniteSets, TLC

VARIABLES
    options,        \* self.options
    changed,        \* self.changed
    check,          \* self.runner.check, as read by the current run()
    pc,             \* position of the instance inside run()
    failure,        \* module_response.result of the remote module that failed
    calls,          \* the remote modules invoked by the current run(), in order
    entry_changed,  \* self.changed as it was when the current run() was entered
    given,          \* role and data of the merged arguments of the current run()
    result,         \* ReturnData.result of the current run()
    host,           \* what the target host holds for the role, when observed
    previous,       \* how the previous run() on the observed host ended
    handled         \* argument and return value of a direct handle_module_result

vars == <<options, changed, check, pc, failure, calls, entry_changed, given,
          result, host, previous, handled>>

----------------------------------------------------------------------------
(* Python values.  None, strings and dicts are tagged so that they can be   *)
(* compared with each other, as the code does.                              *)

None == [type |-> "NoneType"]
Str(s) == [type |-> "str", s |-> s]
Dict(d) == [type |-> "dict", items |-> d]
EmptyMap == [k \in {} |-> None]

\* bool(v) for the values the plugin tests with `not`
Truthy(v) ==
    CASE v.type = "NoneType" -> FALSE
      [] v.type = "str" -> v.s # ""
      [] v.type = "dict" -> DOMAIN v.items # {}

\* d.get(key) on a dict modelled as a function
Get(d, key, default) == IF key \in DOMAIN d THEN d[key] ELSE default

ABSENT == "absent"
LATEST == "latest"
PRESENT == "present"
RESTARTED == "restarted"
STARTED == "started"

----------------------------------------------------------------------------
(* Inputs of run(): bounded sets of arguments and of remote module results. *)

\* container definitions of the compose data
WithImage(i) == Dict([image |-> Str(i)])
NoImage == Dict([ports |-> Str("80:80")])

\* iteration order of data.values()
NameOrder == <<"db", "nginx", "web">>

DataValues ==
    { Dict(EmptyMap),
      Dict([nginx |-> WithImage("nginx:latest")]),
      Dict([db |-> NoImage, web |-> WithImage("web:1")]),
      Dict([web |-> None]) }

RoleNames == {"nginx"}
ContainersWords == {ABSENT, PRESENT, RESTARTED, STARTED, "bogus"}
ImagesWords == {ABSENT, LATEST, PRESENT, "bogus"}

Opt(key, values) == {EmptyMap} \cup {(key :> Str(v)) : v \in values}

\* parse_kv(module_args): strings only
ModuleArgs ==
    { r @@ c @@ i : r \in Opt("role", RoleNames),
                    c \in Opt("containers", ContainersWords),
                    i \in Opt("images", ImagesWords) }

\* complex_args: None, or a mapping that may carry data and override role
ComplexArgs ==
    {None} \cup
    { Dict(r @@ d) : r \in Opt("role", {""}),
                     d \in {EmptyMap} \cup {("data" :> v) : v \in DataValues} }

\* raw results of a remote module: every field may be missing
Messages == {"boom", "denied"}
Stderrs == {"trace"}
Field(key, values) == {EmptyMap} \cup {(key :> v) : v \in values}

Results ==
    { c @@ f @@ m @@ e : c \in Field("changed", BOOLEAN),
                         f \in Field("failed", BOOLEAN),
                         m \in Field("msg", Messages),
                         e \in Field("stderr", Stderrs) }

StatResults ==
    { r @@ s : r \in Results,
               s \in Field("stat", {[exists |-> TRUE], [exists |-> FALSE], EmptyMap}) }

----------------------------------------------------------------------------
(* Properties of ActionModule.                                             *)

role(o) == o["role"]
data(o) == o["data"]
images_state(o) == o["images"]
containers_state(o) == o["containers"]

\* "/etc/docker-compose/{}".format(self.role), as path components
docker_compose_directory(o) == <<"etc", "docker-compose", role(o).s>>

\* "{}/docker-compose.yml".format(self.docker_compose_directory)
docker_compose_file(o) == Append(docker_compose_directory(o), "docker-compose.yml")

\* `"image" in container` raises TypeError unless the container is a mapping
images_raises(o) ==
    \E name \in DOMAIN data(o).items : data(o).items[name].type = "NoneType"

RECURSIVE images_from(_, _)
images_from(items, i) ==
    IF i > Len(NameOrder) THEN <<>>
    ELSE LET name == NameOrder[i]
             rest == images_from(items, i + 1)
         IN IF name \in DOMAIN items /\ "image" \in DOMAIN items[name].items
            THEN <<items[name].items["image"].s>> \o rest
            ELSE rest

\* [container["image"] for container in self.data.values() if "image" in container]
images(o) == images_from(data(o).items, 1)

----------------------------------------------------------------------------
(* set_options                                                             *)

OptionKeys == {"containers", "data", "images", "role"}

\* parsed_args after parse_kv and the update with complex_args
parsed_args(margs, cargs) ==
    IF Truthy(cargs) THEN cargs.items @@ margs ELSE margs

new_options(margs, cargs) ==
    [key \in OptionKeys |-> Get(parsed_args(margs, cargs), key, None)]

\* variant: data is validated before role
set_options_error_data_first(o) ==
    IF ~Truthy(data(o)) THEN "data is required"
    ELSE IF ~Truthy(o["role"]) THEN "role is required"
    ELSE ""

\* variant: only a data of None is rejected, an empty mapping is accepted
set_options_error_none_only(o) ==
    IF ~Truthy(o["role"]) THEN "role is required"
    ELSE IF data(o) = None THEN "data is required"
    ELSE ""

\* the message of the ModuleError set_options raises, or "" when it returns
set_options_error(o) ==
    IF ~Truthy(o["role"]) THEN "role is required"
    ELSE IF ~Truthy(data(o)) THEN "data is required"
    ELSE ""

----------------------------------------------------------------------------
(* handle_module_result                                                    *)

result_changed(r) == Get(r, "changed", FALSE)
result_failed(r) == Get(r, "failed", FALSE)
\* variant: stderr is preferred to msg
result_msg_stderr_first(r) == Get(r, "stderr", Get(r, "msg", ""))

result_msg(r) == Get(r, "msg", Get(r, "stderr", ""))

\* variant: the failure is raised before the changed flag is recorded
accumulate_unless_failed(acc, r) ==
    IF result_failed(r) THEN acc
    ELSE IF result_changed(r) THEN TRUE ELSE acc

\* self.changed after `if changed: self.changed = True`
accumulate(acc, r) == IF result_changed(r) THEN TRUE ELSE acc

----------------------------------------------------------------------------
(* Control flow of run(): the method run() calls next, or "else" when the   *)
(* try block is finished.                                                   *)

\* variant: the images are handled last whatever their state is
line335_any_state(o) ==
    IF images_state(o) \in {Str(ABSENT), Str(PRESENT), Str(LATEST)}
    THEN "remove_images"
    ELSE "else"

line335(o) ==
    IF images_state(o) \in {Str(ABSENT)} THEN "remove_images" ELSE "else"

\* variant: containers=absent removes the directory without looking at the file
line323_skips_stat(o) ==
    IF containers_state(o) \in {Str(ABSENT)}
    THEN "remove_docker_compose_configuration_directory"
    ELSE IF containers_state(o) \in {Str(PRESENT), Str(STARTED), Str(RESTARTED)}
         THEN "create_docker_compose_configuration_directory"
         ELSE line335(o)

line323(o) ==
    IF containers_state(o) \in {Str(ABSENT)}
    THEN "has_docker_compose_file"
    ELSE IF containers_state(o) \in {Str(PRESENT), Str(STARTED), Str(RESTARTED)}
         THEN "create_docker_compose_configuration_directory"
         ELSE line335(o)

\* variant: the images are handled first whatever their state is
line320_any_state(o) ==
    IF images_state(o) \in {Str(PRESENT), Str(LATEST), Str(ABSENT)}
    THEN "pull_images"
    ELSE line323(o)

line320(o) ==
    IF images_state(o) \in {Str(PRESENT), Str(LATEST)}
    THEN "pull_images"
    ELSE line323(o)

\* variant: the containers and the file are removed when the file is missing
line324_inverted(o, exists) ==
    IF exists THEN "remove_docker_compose_configuration_directory"
    ELSE "remove_docker_compose_containers"

\* variant: the result of has_docker_compose_file() is ignored
line324_ignores_exists(o, exists) == "remove_docker_compose_containers"

\* after has_docker_compose_file() returned `exists`
line324(o, exists) ==
    IF exists THEN "remove_docker_compose_containers"
    ELSE "remove_docker_compose_configuration_directory"

\* variant: the containers are created for present as well
line331_present_too(o) ==
    IF containers_state(o) \in {Str(PRESENT), Str(STARTED), Str(RESTARTED)}
    THEN "create_docker_compose_containers"
    ELSE line335(o)

\* variant: the containers are created for restarted only
line331_restarted_only(o) ==
    IF containers_state(o) \in {Str(RESTARTED)}
    THEN "create_docker_compose_containers"
    ELSE line335(o)

\* after create_docker_compose_file()
line331(o) ==
    IF containers_state(o) \in {Str(STARTED), Str(RESTARTED)}
    THEN "create_docker_compose_containers"
    ELSE line335(o)

\* variant: the except branch does not mark the outcome as failed
except_result_not_failed(acc, message) ==
    [failed |-> FALSE, changed |-> acc, msg |-> message]

\* the ReturnData results of run()
check_result(acc) == [failed |-> FALSE, changed |-> acc, msg |-> "ok"]
except_result(acc, message) == [failed |-> TRUE, changed |-> acc, msg |-> message]
else_result(acc) == [failed |-> FALSE, changed |-> acc, msg |-> "ok"]

----------------------------------------------------------------------------
(* The target host.  The remote modules are not part of the plugin: when    *)
(* the host is not observed they may answer anything; when it is observed   *)
(* they do what they are asked, or fail and leave the host as it is.        *)

Unobserved == [observed |-> FALSE]

Hosts ==
    { h \in [observed : {TRUE}, directory : BOOLEAN, file : BOOLEAN,
              containers : BOOLEAN, images : BOOLEAN] : h.file => h.directory }

\* the host after the remote module has done what it was asked
achieved(h, name, margs) ==
    CASE name = "file" /\ margs.state = "directory" ->
             [h EXCEPT !.directory = TRUE]
      [] name = "file" /\ margs.state = "absent" /\ Len(margs.path) = 4 ->
             [h EXCEPT !.file = FALSE]
      [] name = "file" /\ margs.state = "absent" /\ Len(margs.path) = 3 ->
             [h EXCEPT !.directory = FALSE, !.file = FALSE]
      [] name = "template" ->
             [h EXCEPT !.directory = TRUE, !.file = TRUE]
      [] name = "docker-compose" ->
             [h EXCEPT !.containers = (margs.state = "started")]
      [] name = "docker-images" ->
             [h EXCEPT !.images = (margs.state \in {PRESENT, LATEST})]
      [] OTHER -> h

\* the host after the remote module answered r
after(h, name, margs, r) ==
    IF h.observed /\ ~Get(r, "failed", FALSE) THEN achieved(h, name, margs) ELSE h

\* the results the remote module may answer
answers(all, h, name, margs) ==
    IF ~h.observed THEN all
    ELSE { [failed |-> TRUE, msg |-> "boom"] } \cup
         { IF name = "stat"
           THEN [changed |-> FALSE, stat |-> [exists |-> h.file]]
           ELSE [changed |-> (achieved(h, name, margs) # h)] }

----------------------------------------------------------------------------
(* The state after ActionModule.__init__, before any run().                 *)

Init ==
    /\ options = None
    /\ changed = FALSE
    /\ check = FALSE
    /\ pc = "idle"
    /\ failure = None
    /\ calls = <<>>
    /\ entry_changed = FALSE
    /\ given = None
    /\ result = None
    /\ host = Unobserved
    /\ previous = None
    /\ handled = None

\* run() goes on with method `next`, or leaves the try block through `else`
goto(next, acc) ==
    IF next = "else"
    THEN /\ pc' = "returned"
         /\ result' = else_result(acc)
    ELSE /\ pc' = next
         /\ UNCHANGED result

\* an exception other than ModuleError leaves run()
raise_unhandled ==
    /\ pc' = "raised"
    /\ UNCHANGED result

\* variant: a failed result does not raise ModuleError
handle_module_result_no_raise(r, next) ==
    /\ changed' = accumulate(changed, r)
    /\ goto(next, accumulate(changed, r))

\* handle_module_result(result), and what run() does with its outcome
handle_module_result(r, next) ==
    /\ changed' = accumulate(changed, r)
    /\ IF result_failed(r)
       THEN /\ pc' = "returned"
            /\ result' = except_result(accumulate(changed, r), result_msg(r))
       ELSE goto(next, accumulate(changed, r))

\* what a result says about the existence of the path: its stat.exists
reported_exists(r) ==
    IF "stat" \in DOMAIN r /\ "exists" \in DOMAIN r["stat"]
    THEN IF r["stat"]["exists"] THEN "true" ELSE "false"
    ELSE "missing"

\* runner._execute_module / TemplateModule.run: the remote module is invoked
\* and answers r
invoke(name, margs, cargs, inj, r) ==
    /\ calls' = Append(calls, [module_name |-> name, module_args |-> margs,
                               complex_args |-> cargs, inject |-> inj,
                               changed |-> result_changed(r),
                               failed |-> result_failed(r),
                               exists |-> reported_exists(r)])
    /\ failure' = IF result_failed(r) THEN r ELSE None
    /\ host' = after(host, name, margs, r)

\* the inject run() saved in self.inject
inject == EmptyMap

execute_module(name, margs, cargs, r, next) ==
    /\ invoke(name, margs, cargs, inject, r)
    /\ handle_module_result(r, next)

frame == <<options, check, entry_changed, given, previous, handled>>

----------------------------------------------------------------------------
(* run(): from the call to the first remote module, or to the return.       *)

Run(chk, margs, cargs) ==
    /\ pc = "idle"
    /\ check' = chk
    /\ entry_changed' = changed
    /\ given' = [role |-> new_options(margs, cargs)["role"],
                  data |-> new_options(margs, cargs)["data"]]
    /\ calls' = <<>>
    /\ failure' = None
    /\ changed' = changed
    /\ UNCHANGED <<host, previous, handled>>
    /\ IF chk
       THEN /\ pc' = "returned"
            /\ result' = check_result(changed)
            /\ UNCHANGED options
       ELSE /\ options' = new_options(margs, cargs)
            /\ IF set_options_error(options') # ""
               THEN /\ pc' = "returned"
                    /\ result' = except_result(changed, set_options_error(options'))
               ELSE /\ pc' = IF line320(options') = "else" THEN "returned"
                                                            ELSE line320(options')
                    /\ result' = IF line320(options') = "else"
                                 THEN else_result(changed) ELSE None

pull_images ==
    /\ pc = "pull_images"
    /\ IF images_raises(options)
       THEN /\ raise_unhandled
            /\ UNCHANGED <<changed, calls, failure, host>>
       ELSE \E r \in answers(Results, host, "docker-images",
                               [state |-> images_state(options).s]) :
              execute_module("docker-images", [state |-> images_state(options).s],
                             [images |-> images(options)], r, line323(options))
    /\ UNCHANGED frame

\* result["stat"]["exists"] raises KeyError when a key is missing
stat_raises(r) == "stat" \notin DOMAIN r \/ "exists" \notin DOMAIN r["stat"]
stat_exists(r) == r["stat"]["exists"]

has_docker_compose_file ==
    /\ pc = "has_docker_compose_file"
    /\ \E r \in answers(StatResults, host, "stat",
                          [path |-> docker_compose_file(options)]) :
         /\ invoke("stat", [path |-> docker_compose_file(options)], None, inject, r)
         /\ handle_module_result(r, IF stat_raises(r) THEN "raised"
                                     ELSE line324(options, stat_exists(r)))
    /\ UNCHANGED frame

remove_docker_compose_containers ==
    /\ pc = "remove_docker_compose_containers"
    /\ \E r \in answers(Results, host, "docker-compose",
                          [path |-> docker_compose_file(options), state |-> "absent",
                           force |-> "true"]) :
         execute_module("docker-compose",
                        [path |-> docker_compose_file(options), state |-> "absent",
                         force |-> "true"],
                        None, r, "remove_docker_compose_file")
    /\ UNCHANGED frame

remove_docker_compose_file ==
    /\ pc = "remove_docker_compose_file"
    /\ \E r \in answers(Results, host, "file",
                          [path |-> docker_compose_file(options), state |-> "absent"]) :
         execute_module("file",
                        [path |-> docker_compose_file(options), state |-> "absent"],
                        None, r, "remove_docker_compose_configuration_directory")
    /\ UNCHANGED frame

remove_docker_compose_configuration_directory ==
    /\ pc = "remove_docker_compose_configuration_directory"
    /\ \E r \in answers(Results, host, "file",
                          [path |-> docker_compose_directory(options),
                           state |-> "absent"]) :
         execute_module("file",
                        [path |-> docker_compose_directory(options), state |-> "absent"],
                        None, r, line335(options))
    /\ UNCHANGED frame

create_docker_compose_configuration_directory ==
    /\ pc = "create_docker_compose_configuration_directory"
    /\ \E r \in answers(Results, host, "file",
                          [path |-> docker_compose_directory(options),
                           state |-> "directory"]) :
         execute_module("file",
                        [path |-> docker_compose_directory(options),
                         state |-> "directory"],
                        None, r, "create_docker_compose_file")
    /\ UNCHANGED frame

\* the name of the NamedTemporaryFile holding "{{ data|to_nice_yaml }}\n"
template_file == "template_file.name"

create_docker_compose_file ==
    /\ pc = "create_docker_compose_file"
    /\ \E r \in answers(Results, host, "template",
                          [src |-> template_file, dest |-> docker_compose_file(options)]) :
         /\ invoke("template",
                   [src |-> template_file, dest |-> docker_compose_file(options)],
                   None, inject @@ [data |-> data(options)], r)
         /\ handle_module_result(r, line331(options))
    /\ UNCHANGED frame

\* variant: recreation is never forced
force_never(o) == "false"

\* "true" if self.containers_state in (RESTARTED,) else "false"
force(o) == IF containers_state(o) \in {Str(RESTARTED)} THEN "true" ELSE "false"

create_docker_compose_containers ==
    /\ pc = "create_docker_compose_containers"
    /\ \E r \in answers(Results, host, "docker-compose",
                          [path |-> docker_compose_file(options), state |-> "started",
                           force |-> force(options)]) :
         execute_module("docker-compose",
                        [path |-> docker_compose_file(options), state |-> "started",
                         force |-> force(options)],
                        None, r, line335(options))
    /\ UNCHANGED frame

remove_images ==
    /\ pc = "remove_images"
    /\ IF images_raises(options)
       THEN /\ raise_unhandled
            /\ UNCHANGED <<changed, calls, failure, host>>
       ELSE \E r \in answers(Results, host, "docker-images",
                               [state |-> images_state(options).s]) :
              execute_module("docker-images", [state |-> images_state(options).s],
                             [images |-> images(options)], r, "else")
    /\ UNCHANGED frame

\* run() has returned or raised: its frame is gone, the instance remains
Return ==
    /\ pc \in {"returned", "raised"}
    /\ pc' = "idle"
    /\ check' = FALSE
    /\ failure' = None
    /\ calls' = <<>>
    /\ entry_changed' = FALSE
    /\ given' = None
    /\ result' = None
    /\ UNCHANGED <<options, changed, host, previous, handled>>

Next ==
    \/ \E chk \in BOOLEAN, margs \in ModuleArgs, cargs \in ComplexArgs :
         Run(chk, margs, cargs)
    \/ pull_images
    \/ has_docker_compose_file
    \/ remove_docker_compose_containers
    \/ remove_docker_compose_file
    \/ remove_docker_compose_configuration_directory
    \/ create_docker_compose_configuration_directory
    \/ create_docker_compose_file
    \/ create_docker_compose_containers
    \/ remove_images
    \/ Return

Spec == Init /\ [][Next]_vars

TypeOK ==
    /\ changed \in BOOLEAN
    /\ check \in BOOLEAN
    /\ pc \in {"idle", "pull_images", "has_docker_compose_file",
               "remove_docker_compose_containers", "remove_docker_compose_file",
               "remove_docker_compose_configuration_directory",
               "create_docker_compose_configuration_directory",
               "create_docker_compose_file", "create_docker_compose_containers",
               "remove_images", "returned", "raised", "handle_module_result"}
    /\ Len(calls) <= 5

----------------------------------------------------------------------------
(* The plugin on an observed host: run() outside check mode, with a role    *)
(* and compose data, against remote modules that do what they are asked.    *)

HostModuleArgs ==
    { r @@ c @@ i : r \in {("role" :> Str("nginx"))},
                    c \in Opt("containers", {ABSENT, PRESENT, RESTARTED, STARTED}),
                    i \in Opt("images", {ABSENT, LATEST}) }

HostComplexArgs == { Dict([data |-> Dict([nginx |-> WithImage("nginx:latest")])]) }

HostInit ==
    /\ options = None
    /\ changed = FALSE
    /\ check = FALSE
    /\ pc = "idle"
    /\ failure = None
    /\ calls = <<>>
    /\ entry_changed = FALSE
    /\ given = None
    /\ result = None
    /\ host \in Hosts
    /\ previous = None
    /\ handled = None

HostRun ==
    \E margs \in HostModuleArgs, cargs \in HostComplexArgs : Run(FALSE, margs, cargs)

\* run() has returned: as Return, and how it ended is remembered
HostReturn ==
    /\ pc = "returned"
    /\ pc' = "idle"
    /\ check' = FALSE
    /\ failure' = None
    /\ calls' = <<>>
    /\ entry_changed' = FALSE
    /\ given' = None
    /\ result' = None
    /\ previous' = [containers |-> options["containers"], failed |-> result.failed]
    /\ UNCHANGED <<options, changed, host, handled>>

HostNext ==
    \/ HostRun
    \/ pull_images
    \/ has_docker_compose_file
    \/ remove_docker_compose_containers
    \/ remove_docker_compose_file
    \/ remove_docker_compose_configuration_directory
    \/ create_docker_compose_configuration_directory
    \/ create_docker_compose_file
    \/ create_docker_compose_containers
    \/ remove_images
    \/ HostReturn

SpecHost == HostInit /\ [][HostNext]_vars

----------------------------------------------------------------------------
(* handle_module_result called directly on every raw result.                *)

NormalizeInit ==
    /\ options = None
    /\ changed \in BOOLEAN
    /\ check = FALSE
    /\ pc = "handle_module_result"
    /\ failure = None
    /\ calls = <<>>
    /\ entry_changed = changed
    /\ given = None
    /\ result = None
    /\ host = Unobserved
    /\ previous = None
    /\ handled \in {[result |-> r, returned |-> None] : r \in StatResults}

\* handle_module_result(result) as the last statement of the try block:
\* it returns its argument, or raises ModuleError
Normalize ==
    /\ pc = "handle_module_result"
    /\ handle_module_result(handled.result, "else")
    /\ handled' = [handled EXCEPT !.returned = IF result_failed(handled.result)
                                                THEN None ELSE handled.result]
    /\ UNCHANGED <<options, check, failure, calls, entry_changed, given, host,
                   previous>>

NormalizeNext == Normalize

SpecNormalize == NormalizeInit /\ [][NormalizeNext]_vars

----------------------------------------------------------------------------
(* Vocabulary of the properties.                                           *)

Returned == pc = "returned"
InRun == pc \notin {"idle"}
CallIndex == 1..Len(calls)
Invoked(name) == {i \in CallIndex : calls[i].module_name = name}
SomeCallFailed == \E i \in CallIndex : calls[i].failed
\* OR of the changed flags the remote modules reported before call i
ReportedBefore(i) == \E j \in 1..(i - 1) : calls[j].changed
ReportedChanged == \E i \in CallIndex : calls[i].changed
\* the message a raw result carries: msg, else stderr, else nothing
ReportedMessage(r) ==
    IF "msg" \in DOMAIN r THEN r["msg"]
    ELSE IF "stderr" \in DOMAIN r THEN r["stderr"] ELSE ""
Missing(v) == v = None \/ v = Str("") \/ v = Dict(EmptyMap)
ConfigDirectory == <<"etc", "docker-compose", options["role"].s>>
ConfigFile == <<"etc", "docker-compose", options["role"].s, "docker-compose.yml">>
\* a call, without what the remote module answered
Request(i) == [module_name |-> calls[i].module_name,
               module_args |-> calls[i].module_args,
               complex_args |-> calls[i].complex_args,
               inject |-> calls[i].inject]
Requests == [i \in CallIndex |-> Request(i)]

----------------------------------------------------------------------------
\* C1: every run() in check mode invokes no remote module and returns
\* failed=false, changed=false, msg="ok", whatever the arguments are.
C1_CheckModeClean ==
    (Returned /\ check) =>
        /\ calls = <<>>
        /\ result = [failed |-> FALSE, changed |-> FALSE, msg |-> "ok"]

C1_CheckAfterChange ==
    /\ Returned /\ check /\ entry_changed
    /\ Missing(given.role)
    /\ result.changed

\* C2: every run() whose merged arguments have no role (None or "") returns
\* failed=true, changed=false, msg="role is required" and invokes no remote
\* module.
C2_RoleRequired ==
    (Returned /\ given.role \in {None, Str("")}) =>
        /\ result = [failed |-> TRUE, changed |-> FALSE, msg |-> "role is required"]
        /\ calls = <<>>

\* C2, amended: every run() outside check mode whose merged arguments have
\* no role returns failed=true, msg="role is required" and the value
\* self.changed had when run() was entered, and invokes no remote module.
C2_RoleRequiredOutsideCheck ==
    (Returned /\ ~check /\ given.role \in {None, Str("")}) =>
        /\ result = [failed |-> TRUE, changed |-> entry_changed,
                     msg |-> "role is required"]
        /\ changed = entry_changed
        /\ calls = <<>>

C2_NoRoleNoData ==
    /\ Returned /\ ~check
    /\ given.role = Str("") /\ given.data = None
    /\ result.failed /\ result.msg = "role is required"

\* C3: every run() whose merged arguments have a role but no data (None or
\* an empty mapping) returns failed=true, changed=false,
\* msg="data is required" and invokes no remote module, whatever images and
\* containers are.
C3_DataRequired ==
    (Returned /\ Truthy(given.role) /\ given.data \in {None, Dict(EmptyMap)}) =>
        /\ result = [failed |-> TRUE, changed |-> FALSE, msg |-> "data is required"]
        /\ calls = <<>>

\* C3, amended: every run() outside check mode whose merged arguments have a
\* role but no data returns failed=true, msg="data is required" and the
\* value self.changed had when run() was entered, and invokes no remote
\* module, whatever images and containers are.
C3_DataRequiredOutsideCheck ==
    (Returned /\ ~check /\ Truthy(given.role)
              /\ given.data \in {None, Dict(EmptyMap)}) =>
        /\ result = [failed |-> TRUE, changed |-> entry_changed,
                     msg |-> "data is required"]
        /\ changed = entry_changed
        /\ calls = <<>>

C3_EmptyDataWithStates ==
    /\ Returned /\ ~check
    /\ given.role = Str("nginx") /\ given.data = Dict(EmptyMap)
    /\ options["images"] = Str(LATEST) /\ options["containers"] = Str(STARTED)
    /\ result.msg = "data is required"

\* C4: once a remote module has reported failed=true no further remote
\* module is invoked in that run(), and run() returns failed=true with the
\* message of that module.
C4_FirstFailureEndsRun ==
    \A i \in CallIndex :
        calls[i].failed =>
            /\ i = Len(calls)
            /\ Returned
            /\ result.failed = TRUE
            /\ result.msg = ReportedMessage(failure)

C4_FailedAfterChanges ==
    /\ Returned /\ ~check
    /\ Len(calls) = 3
    /\ calls[1].module_name = "docker-images"
    /\ calls[2].module_name = "file" /\ calls[2].changed
    /\ calls[3].module_name = "template" /\ calls[3].failed
    /\ result.msg = "denied"

\* C5: outside check mode the changed of the outcome is the OR of the
\* changed flags the remote modules of that run() reported; self.changed
\* never goes from true to false during the run.
C5_ChangedIsOrOfReports ==
    /\ (Returned /\ ~check) => result.changed = ReportedChanged
    /\ (InRun /\ entry_changed) => changed

C5_StaleChange ==
    /\ Returned /\ ~check /\ entry_changed
    /\ calls # <<>> /\ ~ReportedChanged
    /\ result.changed

\* C6: when a remote module reports failure the changed of the outcome is
\* the value accumulated before the failing call, the failing call's own
\* changed flag not counted; when the pull of the images (images present or
\* latest) fails, nothing else is invoked and the outcome has changed=false.
C6_FailingChangeNotCounted ==
    /\ (Returned /\ SomeCallFailed) =>
           result.changed = (entry_changed \/ ReportedBefore(Len(calls)))
    /\ (Returned /\ calls # <<>> /\ calls[1].module_name = "docker-images"
                 /\ calls[1].module_args.state \in {PRESENT, LATEST}
                 /\ calls[1].failed) =>
           /\ Len(calls) = 1
           /\ result.changed = FALSE

\* C6, amended: when a remote module reports failure the changed of the
\* outcome is the value accumulated before the failing call OR-ed with the
\* failing call's own changed flag; when the pull of the images fails,
\* nothing else is invoked and the outcome's changed is self.changed as it
\* was when run() was entered OR-ed with the changed flag of the pull.
C6_FailingChangeCounted ==
    /\ (Returned /\ SomeCallFailed) =>
           result.changed = (\/ entry_changed
                             \/ ReportedBefore(Len(calls))
                             \/ calls[Len(calls)].changed)
    /\ (Returned /\ calls # <<>> /\ calls[1].module_name = "docker-images"
                 /\ calls[1].module_args.state \in {PRESENT, LATEST}
                 /\ calls[1].failed) =>
           /\ Len(calls) = 1
           /\ result.changed = (entry_changed \/ calls[1].changed)

C6_PullFailedAndChanged ==
    /\ Returned /\ ~entry_changed
    /\ Len(calls) = 1 /\ calls[1].module_name = "docker-images"
    /\ calls[1].module_args.state = LATEST
    /\ calls[1].failed /\ calls[1].changed
    /\ options["containers"] = Str(STARTED)
    /\ result.failed /\ result.changed

\* C7: in a run() outside check mode with images=latest and
\* containers=restarted, docker-compose is invoked only after docker-images
\* (state=latest) has been invoked and has succeeded, and it is invoked with
\* state=started force=true; a run() that succeeds has invoked both.
C7_PullBeforeForcedStart ==
    (InRun /\ ~check /\ options # None
           /\ options["images"] = Str(LATEST)
           /\ options["containers"] = Str(RESTARTED)) =>
        /\ \A i \in Invoked("docker-compose") :
               /\ i > 1
               /\ calls[1].module_name = "docker-images"
               /\ calls[1].module_args = [state |-> "latest"]
               /\ ~calls[1].failed
               /\ calls[i].module_args =
                      [path |-> ConfigFile, state |-> "started", force |-> "true"]
        /\ (Returned /\ ~result.failed) =>
               /\ Invoked("docker-images") = {1}
               /\ Invoked("docker-compose") # {}

C7_RestartedWithLatest ==
    /\ Returned /\ ~check /\ ~result.failed
    /\ options["images"] = Str(LATEST) /\ options["containers"] = Str(RESTARTED)
    /\ Len(calls) = 4
    /\ calls[1].module_name = "docker-images"
    /\ calls[4].module_name = "docker-compose"
    /\ calls[4].module_args.force = "true"

\* the remote modules of the removal of the containers, with or without the
\* configuration file
RemovalWithFile ==
    << [module_name |-> "stat", module_args |-> [path |-> ConfigFile],
        complex_args |-> None, inject |-> EmptyMap],
       [module_name |-> "docker-compose",
        module_args |-> [path |-> ConfigFile, state |-> "absent", force |-> "true"],
        complex_args |-> None, inject |-> EmptyMap],
       [module_name |-> "file",
        module_args |-> [path |-> ConfigFile, state |-> "absent"],
        complex_args |-> None, inject |-> EmptyMap],
       [module_name |-> "file",
        module_args |-> [path |-> ConfigDirectory, state |-> "absent"],
        complex_args |-> None, inject |-> EmptyMap] >>
RemovalWithoutFile == <<RemovalWithFile[1], RemovalWithFile[4]>>

\* C8: in a run() outside check mode with containers=absent and
\* images=absent, docker-images (state=absent) is invoked only after the
\* removal of the containers (stat, docker-compose absent, file absent,
\* directory absent) has completed without failure, and nothing is invoked
\* after it.
C8_ImagesRemovedLast ==
    (InRun /\ ~check /\ options # None
           /\ options["images"] = Str(ABSENT)
           /\ options["containers"] = Str(ABSENT)) =>
        /\ \A i \in Invoked("docker-images") :
               /\ i = Len(calls)
               /\ calls[i].module_args = [state |-> "absent"]
               /\ \A j \in 1..(i - 1) : ~calls[j].failed
               /\ IF calls[1].exists = "true"
                  THEN SubSeq(Requests, 1, i - 1) = RemovalWithFile
                  ELSE SubSeq(Requests, 1, i - 1) = RemovalWithoutFile
        /\ (Returned /\ ~result.failed) => Invoked("docker-images") # {}

C8_AllRemoved ==
    /\ Returned /\ ~check /\ ~result.failed
    /\ options["images"] = Str(ABSENT) /\ options["containers"] = Str(ABSENT)
    /\ Len(calls) = 5
    /\ calls[5].module_name = "docker-images"

\* C9: when stat succeeds and reports that the configuration file does not
\* exist, neither docker-compose nor the removal of the file is invoked, and
\* the removal of the configuration directory is the next module invoked.
C9_NoFileSkipsRemoval ==
    \A k \in Invoked("stat") :
        (~calls[k].failed /\ calls[k].exists = "false") =>
            /\ options["containers"] = Str(ABSENT)
            /\ Invoked("docker-compose") = {}
            /\ \A i \in Invoked("file") :
                   calls[i].module_args = [path |-> ConfigDirectory, state |-> "absent"]
            /\ IF Len(calls) = k
               THEN pc = "remove_docker_compose_configuration_directory"
               ELSE Request(k + 1) = RemovalWithFile[4]

C9_DirectoryRemovedWithoutFile ==
    /\ Returned /\ ~check
    /\ Len(calls) = 2
    /\ calls[1].module_name = "stat" /\ calls[1].exists = "false"
    /\ calls[2].module_name = "file"
    /\ calls[2].module_args = [path |-> ConfigDirectory, state |-> "absent"]

\* the image list of the compose data of the inputs
ExpectedImages ==
    IF "nginx" \in DOMAIN options["data"].items
    THEN <<"nginx:latest">> ELSE <<"web:1">>

\* the remote modules of images present/latest with containers=started
StartSequence ==
    << [module_name |-> "docker-images",
        module_args |-> [state |-> options["images"].s],
        complex_args |-> [images |-> ExpectedImages], inject |-> EmptyMap],
       [module_name |-> "file",
        module_args |-> [path |-> ConfigDirectory, state |-> "directory"],
        complex_args |-> None, inject |-> EmptyMap],
       [module_name |-> "template",
        module_args |-> [src |-> "template_file.name", dest |-> ConfigFile],
        complex_args |-> None, inject |-> [data |-> options["data"]]],
       [module_name |-> "docker-compose",
        module_args |-> [path |-> ConfigFile, state |-> "started", force |-> "false"],
        complex_args |-> None, inject |-> EmptyMap] >>

ValidOptions ==
    /\ options # None
    /\ options["role"] = Str("nginx")
    /\ options["data"].type = "dict"
    /\ \E n \in {"nginx", "web"} :
           /\ n \in DOMAIN options["data"].items
           /\ options["data"].items[n].type = "dict"

\* C10: in a run() outside check mode with valid role and data, images
\* present or latest and containers=started, the remote modules invoked are
\* docker-images, file (directory), template, docker-compose (started,
\* force=false), in this order and once each; when all of them succeed the
\* outcome is failed=false, msg="ok".
C10_StartSequence ==
    (InRun /\ ~check /\ ValidOptions
           /\ options["images"] \in {Str(PRESENT), Str(LATEST)}
           /\ options["containers"] = Str(STARTED)) =>
        /\ Len(calls) <= 4
        /\ \A i \in CallIndex : Request(i) = StartSequence[i]
        /\ (Returned /\ ~SomeCallFailed) =>
               /\ Len(calls) = 4
               /\ result.failed = FALSE
               /\ result.msg = "ok"

C10_Started ==
    /\ Returned /\ ~check /\ ValidOptions
    /\ options["images"] = Str(LATEST) /\ options["containers"] = Str(STARTED)
    /\ Len(calls) = 4 /\ ~SomeCallFailed
    /\ calls[1].complex_args = [images |-> <<"nginx:latest">>]
    /\ result.msg = "ok"

\* C11: the failed of the outcome is true if and only if some remote module
\* invoked by that run() reported failure.
C11_FailedIffModuleFailed ==
    Returned => (result.failed <=> SomeCallFailed)

\* C11, amended: the failed of the outcome is true if and only if some
\* remote module invoked by that run() reported failure, or the run() is
\* outside check mode and its merged arguments have no role or no data.
C11_FailedIffModuleOrValidation ==
    Returned =>
        (result.failed <=>
            \/ SomeCallFailed
            \/ ~check /\ (Missing(given.role) \/ Missing(given.data)))

C11_FailedByStat ==
    /\ Returned /\ ~check
    /\ Len(calls) = 1 /\ calls[1].module_name = "stat" /\ calls[1].failed
    /\ result.failed

\* C12: every run() ends by returning one outcome; no error leaves run()
\* unhandled, whatever the arguments and the results of the remote modules.
C12_NoUnhandledError ==
    /\ pc # "raised"
    /\ Returned => result # None

\* C13: nothing is carried from one run() to the next: the outcome of a
\* run() has changed=true only if a remote module of that run() reported a
\* change.
C13_NoCarriedChange ==
    Returned => (result.changed => ReportedChanged)

C13_ChangeCarriedIntoFailure ==
    /\ Returned /\ ~check /\ entry_changed
    /\ calls = <<>> /\ result.failed /\ result.changed

EnsureDirectory(i) ==
    /\ calls[i].module_name = "file"
    /\ calls[i].module_args = [path |-> ConfigDirectory, state |-> "directory"]
RenderFile(i) ==
    /\ calls[i].module_name = "template"
    /\ calls[i].module_args.dest = ConfigFile

\* C14: docker-compose state=started is invoked only when containers is
\* started or restarted, only after the directory and the template modules
\* have succeeded in that run(), with force=true exactly for restarted; with
\* containers=present the directory and the template modules are invoked
\* and docker-compose is not.
C14_StartOnlyAfterFile ==
    /\ \A i \in Invoked("docker-compose") :
           calls[i].module_args.state = "started" =>
               /\ options["containers"] \in {Str(STARTED), Str(RESTARTED)}
               /\ \E j \in 1..(i - 1) :
                      /\ EnsureDirectory(j) /\ ~calls[j].failed
                      /\ \E k \in (j + 1)..(i - 1) : RenderFile(k) /\ ~calls[k].failed
               /\ calls[i].module_args.force = "true"
                      <=> options["containers"] = Str(RESTARTED)
    /\ (InRun /\ ~check /\ options # None /\ options["containers"] = Str(PRESENT)) =>
           /\ Invoked("docker-compose") = {}
           /\ (Returned /\ ~result.failed) =>
                  \E j \in CallIndex :
                      /\ EnsureDirectory(j)
                      /\ \E k \in (j + 1)..Len(calls) : RenderFile(k)

C14_PresentWritesFileOnly ==
    /\ Returned /\ ~check /\ ~result.failed
    /\ options["containers"] = Str(PRESENT)
    /\ Len(calls) = 2 /\ EnsureDirectory(1) /\ RenderFile(2)

Recognized(v, words) == \E w \in words : v = Str(w)

\* C15: outside check mode with valid role and data, when neither images nor
\* containers is a recognized state no remote module is invoked and the
\* outcome is failed=false, changed=false, msg="ok"; an unrecognized images
\* skips docker-images only, an unrecognized containers skips stat, file,
\* template and docker-compose only.
C15_UnrecognizedDoesNothing ==
    (InRun /\ ~check /\ options # None
           /\ Truthy(options["role"]) /\ Truthy(options["data"])) =>
        /\ (/\ ~Recognized(options["images"], {PRESENT, LATEST, ABSENT})
            /\ ~Recognized(options["containers"], {ABSENT, PRESENT, STARTED, RESTARTED})) =>
               /\ calls = <<>>
               /\ result = [failed |-> FALSE, changed |-> FALSE, msg |-> "ok"]
        /\ ~Recognized(options["images"], {PRESENT, LATEST, ABSENT}) =>
               Invoked("docker-images") = {}
        /\ ~Recognized(options["containers"], {ABSENT, PRESENT, STARTED, RESTARTED}) =>
               \A i \in CallIndex : calls[i].module_name = "docker-images"

\* C16: in one run() docker-images, docker-compose, stat and template are
\* each invoked at most once, and at most five remote modules are invoked.
C16_AtMostOnce ==
    /\ \A name \in {"docker-images", "docker-compose", "stat", "template"} :
           Cardinality(Invoked(name)) <= 1
    /\ Len(calls) <= 5

C16_FiveModules ==
    /\ Returned /\ Len(calls) = 5 /\ calls[5].failed
    /\ Cardinality(Invoked("file")) = 2
    /\ Cardinality(Invoked("stat")) = 1
    /\ Cardinality(Invoked("docker-compose")) = 1
    /\ Cardinality(Invoked("docker-images")) = 1

\* C17: in a run() with containers=absent and images=absent on any host,
\* the role's containers are gone when docker-images state=absent is invoked,
\* the remote modules doing what they are asked.
C17_ContainersGoneBeforeImages ==
    (pc = "remove_images" /\ options["containers"] = Str(ABSENT)
                          /\ options["images"] = Str(ABSENT)) =>
        ~host.containers

\* C17, amended: in a run() with containers=absent and images=absent on a
\* host that has the role's configuration file when stat is invoked, the
\* role's containers are gone when docker-images state=absent is invoked,
\* the remote modules doing what they are asked; without the file the
\* containers are left as they are.
C17_ContainersGoneWhenFileExisted ==
    (pc = "remove_images" /\ options["containers"] = Str(ABSENT)
                          /\ options["images"] = Str(ABSENT)) =>
        /\ calls[1].module_name = "stat"
        /\ calls[1].exists = "true" => ~host.containers
        /\ calls[1].exists = "false" => Invoked("docker-compose") = {}

C17_ContainersTornDown ==
    /\ pc = "remove_images" /\ options["containers"] = Str(ABSENT)
    /\ Len(calls) = 4 /\ calls[1].exists = "true"
    /\ calls[2].module_name = "docker-compose" /\ calls[2].changed
    /\ ~host.containers /\ host.images

\* the number of remote modules run() invokes before the containers branch
Pulled == IF options["images"] \in {Str(PRESENT), Str(LATEST)} THEN 1 ELSE 0

\* C18: after a successful run() with containers present, started or
\* restarted, a run() with containers=absent for the same role invokes stat,
\* docker-compose absent, file absent and directory absent, and when it
\* succeeds the host has neither the configuration file nor the directory,
\* the remote modules doing what they are asked.
C18_RoundTrip ==
    (InRun /\ previous # None /\ ~previous.failed
           /\ previous.containers \in {Str(PRESENT), Str(STARTED), Str(RESTARTED)}
           /\ options["containers"] = Str(ABSENT)) =>
        /\ \A i \in CallIndex :
               (Pulled < i /\ i <= Pulled + 4) => Request(i) = RemovalWithFile[i - Pulled]
        /\ (Returned /\ ~result.failed) =>
               /\ Len(calls) >= Pulled + 4
               /\ ~host.file /\ ~host.directory

C18_CreatedThenRemoved ==
    /\ Returned /\ ~result.failed
    /\ previous # None /\ ~previous.failed /\ previous.containers = Str(STARTED)
    /\ options["containers"] = Str(ABSENT)
    /\ Len(calls) = 4 /\ calls[2].changed /\ calls[3].changed /\ calls[4].changed
    /\ ~host.file /\ ~host.directory /\ ~host.containers

\* C19: handle_module_result takes changed and failed as false when the
\* result lacks them, takes as message msg, else stderr, else ""; a failed
\* result makes this message the msg of the outcome, and a result that is
\* not failed is returned as it is.
C19_Normalization ==
    (pc = "returned" /\ handled # None) =>
        LET r == handled.result
            reported_changed == IF "changed" \in DOMAIN r THEN r["changed"] ELSE FALSE
            reported_failed == IF "failed" \in DOMAIN r THEN r["failed"] ELSE FALSE
        IN /\ changed = (entry_changed \/ reported_changed)
           /\ result.failed = reported_failed
           /\ reported_failed => /\ result.msg = ReportedMessage(r)
                                 /\ handled.returned = None
           /\ ~reported_failed => handled.returned = r

C19_StderrAsMessage ==
    /\ pc = "returned" /\ handled # None
    /\ DOMAIN handled.result = {"failed", "stderr"}
    /\ result.failed /\ result.msg = "trace" /\ ~changed

====
